---- MODULE Spec2Model ----
(***************************************************************************)
(* The session-backed identity and guild cache of the dashboard            *)
(* (src/dashboard/core/app.py, class Dashboard): get_token, fetch_user,    *)
(* get_user, fetch_user_guilds and get_user_guilds, run against one        *)
(* session record, a discrete clock, the OAuth provider and the identity   *)
(* endpoint.  Every method is one action; what the remote side answers is  *)
(* an input of the action.  The views of utilities.objects (Token, User,   *)
(* Guild and their is_expired) follow the design document's data model.   *)
(***************************************************************************)
EXTENDS Integers, Sequences, FiniteSets, TLC

VARIABLES
    session,    \* the aiohttp_session.Session the methods are given
    now,        \* time.time()
    last,       \* the most recent method call: its inputs, effects and result
    prev,       \* the call before it
    reqs,       \* the requests being handled at once, each where it awaits
    token_writes,               \* how often session["token"] was assigned
    spotify_user_credentials,   \* Dashboard.spotify_user_credentials
    db          \* the users row that Dashboard.db holds for the user

vars == <<session, now, last, prev, reqs, token_writes,
          spotify_user_credentials, db>>

----------------------------------------------------------------------------
(* Bounds of the model.                                                    *)

MaxTime == 3
MaxGuilds == 2

(* Lifetimes.  expires_in is what the provider puts in the token body; the *)
(* user and guild time-to-live belong to utilities/objects.                *)
ExpiresIn == 2
UserTTL == 2
GuildTTL == 2

----------------------------------------------------------------------------
(* Values.                                                                 *)

\* Python's None / a missing key, and a present value.
None == <<>>
Some(x) == <<x>>

\* A key that a dict does not have (obtained_at of a token body).
Missing == -1

AccessTokens == {"B", "C"}
RefreshTokens == {"R2"}
UserIds == {"7"}
Times == 0..MaxTime

\* Guild ids arrive as decimal strings; int(data["id"]) reads them back.
GuildIds == {ToString(i) : i \in 1..MaxGuilds}
int == [s \in GuildIds |-> CHOOSE i \in 1..MaxGuilds : ToString(i) = s]

\* The body of a token response: session["token"] holds such a body verbatim.
TokenBody(error, access, refresh, expires, obtained) ==
    [error |-> error, access_token |-> access, refresh_token |-> refresh,
     expires_in |-> expires, obtained_at |-> obtained]

\* What the OAuth token endpoint can answer to a refresh: a non-200 status,
\* a 200 with an error field, or a 200 with a new credential.  The provider
\* sends access_token, refresh_token and expires_in, and no obtained_at.
RefreshResponses ==
    {[status |-> 400, body |-> TokenBody("invalid_grant", "", "", 0, Missing)],
     [status |-> 200, body |-> TokenBody("invalid_grant", "", "", 0, Missing)]}
    \cup {[status |-> 200, body |-> TokenBody("", a, r, ExpiresIn, Missing)] :
            a \in AccessTokens, r \in RefreshTokens}

----------------------------------------------------------------------------
(* utilities.objects: the views over the stored dicts.                     *)

\* objects.Token(data)
Token(data) ==
    [access_token |-> data.access_token, refresh_token |-> data.refresh_token,
     expires_in |-> data.expires_in, obtained_at |-> data.obtained_at]

\* Token.is_expired(): now >= obtained_at + lifetime.  For a body without
\* obtained_at the outcome is not determined: choice stands for it.
Token_is_expired(token, t, choice) ==
    IF token.obtained_at = Missing THEN choice
    ELSE t >= token.obtained_at + token.expires_in

----------------------------------------------------------------------------
(* The effect of a method: the session it leaves, what it returns or       *)
(* raises, the answers it got from the token endpoint, the requests it     *)
(* sent to the identity endpoint and the session fields it wrote.          *)

Returned(v) == [kind |-> "value", value |-> Some(v)]
Absent == [kind |-> "absent", value |-> None]
Raised == [kind |-> "HTTPException", value |-> None]

Effect(s, ret, refresh, identity, writes) ==
    [session |-> s, ret |-> ret, refresh |-> refresh, identity |-> identity,
     writes |-> writes]

\* The refresh answered with a credential: status 200 and no error field.
Granted(resp) == resp.status = 200 /\ resp.body.error = ""

refreshed_keeps_old(s, resp) ==
    IF ~Granted(resp)
    THEN Effect(s, Raised, <<resp>>, <<>>, <<>>)
    ELSE Effect([s EXCEPT !.token = Some(resp.body)],
                Returned(Token(s.token[1])), <<resp>>, <<>>, <<"token">>)

refreshed_resets_session(s, resp) ==
    IF resp.status # 200
    THEN Effect(s, Raised, <<resp>>, <<>>, <<>>)
    ELSE IF resp.body.error # ""
    THEN Effect(s, Raised, <<resp>>, <<>>, <<>>)
    ELSE Effect([token |-> Some(resp.body), user |-> None, guilds |-> None],
                Returned(Token(resp.body)), <<resp>>, <<>>, <<"token">>)

refreshed_writes_first(s, resp) ==
    IF resp.status # 200
    THEN Effect(s, Raised, <<resp>>, <<>>, <<>>)
    ELSE IF resp.body.error # ""
    THEN Effect([s EXCEPT !.token = Some(resp.body)], Raised, <<resp>>, <<>>,
                <<"token">>)
    ELSE Effect([s EXCEPT !.token = Some(resp.body)],
                Returned(Token(resp.body)), <<resp>>, <<>>, <<"token">>)

\* The refresh branch of get_token: one POST, answered by resp.
refreshed(s, resp) ==
    IF resp.status # 200
    THEN Effect(s, Raised, <<resp>>, <<>>, <<>>)
    ELSE IF resp.body.error # ""
    THEN Effect(s, Raised, <<resp>>, <<>>, <<>>)
    ELSE Effect([s EXCEPT !.token = Some(resp.body)],
                Returned(Token(resp.body)), <<resp>>, <<>>, <<"token">>)

get_token_always_refreshes(s, t, choice, resp) ==
    IF s.token = None
    THEN Effect(s, Absent, <<>>, <<>>, <<>>)
    ELSE refreshed(s, resp)

get_token_raises_when_absent(s, t, choice, resp) ==
    IF s.token = None
    THEN Effect(s, Raised, <<>>, <<>>, <<>>)
    ELSE LET token == Token(s.token[1]) IN
         IF Token_is_expired(token, t, choice)
         THEN refreshed(s, resp)
         ELSE Effect(s, Returned(token), <<>>, <<>>, <<>>)

\* Dashboard.get_token
get_token(s, t, choice, resp) ==
    IF s.token = None
    THEN Effect(s, Absent, <<>>, <<>>, <<>>)
    ELSE LET token == Token(s.token[1]) IN
         IF Token_is_expired(token, t, choice)
         THEN refreshed(s, resp)
         ELSE Effect(s, Returned(token), <<>>, <<>>, <<>>)

----------------------------------------------------------------------------
(* The identity endpoint (http.HTTPClient.request): it answers with the    *)
(* JSON data or the request raises.                                        *)

Failed == [ok |-> FALSE, data |-> None]
Answered(d) == [ok |-> TRUE, data |-> Some(d)]

\* A request sent with an access token, and what came back.
Request(route, token, answer) ==
    [route |-> route, token |-> token, answer |-> answer]

\* GET /users/@me
UserResponses == {Failed} \cup {Answered([id |-> u]) : u \in UserIds}

\* The sequences over S without repetition, of length at most n.
RECURSIVE Lists(_, _)
Lists(S, n) ==
    IF n = 0 THEN {<<>>}
    ELSE LET shorter == Lists(S, n - 1) IN
         shorter \cup {Append(l, x) : l \in shorter, x \in S}

Injective(l) == \A i, j \in 1..Len(l) : l[i] = l[j] => i = j

\* GET /users/@me/guilds
GuildResponses ==
    {Failed} \cup
    {Answered([i \in 1..Len(l) |-> [id |-> l[i]]]) :
        l \in {m \in Lists(GuildIds, MaxGuilds) : Injective(m)}}

stamp_keeps_zero(data, t) == [id |-> data.id, fetched_at |-> 0]

\* data["fetched_at"] = time.time()
stamp(data, t) == [id |-> data.id, fetched_at |-> t]

\* objects.User(data) and objects.Guild(data)
User(data) == [id |-> data.id, fetched_at |-> data.fetched_at]
Guild(data) == [id |-> int[data.id], fetched_at |-> data.fetched_at]

User_is_expired(user, t) == t >= user.fetched_at + UserTTL
Guild_is_expired(guild, t) == t >= guild.fetched_at + GuildTTL

\* {int(data["id"]): objects.Guild(data) for data in guilds_data}: a dict in
\* insertion order, kept as the sequence of its items; a key that comes
\* again keeps its place and takes the later value.
RECURSIVE guild_dict(_)
guild_dict(guilds_data) ==
    IF guilds_data = <<>> THEN <<>>
    ELSE LET n == Len(guilds_data)
             front == guild_dict(SubSeq(guilds_data, 1, n - 1))
             item == [key |-> int[guilds_data[n].id], value |-> Guild(guilds_data[n])]
         IN  IF \E i \in 1..Len(front) : front[i].key = item.key
             THEN [i \in 1..Len(front) |->
                      IF front[i].key = item.key THEN item ELSE front[i]]
             ELSE Append(front, item)

is_none(field) == field = None

\* not x, for a session.get(...) result: None and the empty list are falsy.
falsy(field) == field = None \/ field[1] = <<>>

\* Dashboard.fetch_user
fetch_user(s, t, choice, resp, answer) ==
    LET tk == get_token(s, t, choice, resp) IN
    IF tk.ret.kind # "value"
    THEN tk
    ELSE LET request == Request("/users/@me", tk.ret.value[1].access_token, answer) IN
         IF ~answer.ok
         THEN Effect(tk.session, Raised, tk.refresh, <<request>>, tk.writes)
         ELSE LET data == stamp(answer.data[1], t) IN
              Effect([tk.session EXCEPT !.user = Some(data)], Returned(User(data)),
                     tk.refresh, <<request>>, Append(tk.writes, "user"))

get_user_token_first(s, t, choice, resp, answer) ==
    LET tk == get_token(s, t, choice, resp) IN
    IF tk.ret.kind # "value"
    THEN tk
    ELSE IF s.user = None \/ User_is_expired(User(s.user[1]), t)
    THEN fetch_user(s, t, choice, resp, answer)
    ELSE Effect(tk.session, Returned(User(s.user[1])), tk.refresh, <<>>, tk.writes)

\* Dashboard.get_user
get_user(s, t, choice, resp, answer) ==
    IF s.user = None
    THEN fetch_user(s, t, choice, resp, answer)
    ELSE LET user == User(s.user[1]) IN
         IF User_is_expired(user, t)
         THEN fetch_user(s, t, choice, resp, answer)
         ELSE Effect(s, Returned(user), <<>>, <<>>, <<>>)

fetch_user_guilds_old_token(s, t, choice, resp, answer) ==
    LET tk == get_token(s, t, choice, resp) IN
    IF tk.ret.kind # "value"
    THEN tk
    ELSE LET request ==
                 Request("/users/@me/guilds", s.token[1].access_token, answer)
         IN
         IF ~answer.ok
         THEN Effect(tk.session, Raised, tk.refresh, <<request>>, tk.writes)
         ELSE LET fetched == answer.data[1]
                  guilds_data == [i \in 1..Len(fetched) |-> stamp(fetched[i], t)]
              IN  Effect([tk.session EXCEPT !.guilds = Some(guilds_data)],
                         Returned(guild_dict(guilds_data)),
                         tk.refresh, <<request>>, Append(tk.writes, "guilds"))

fetch_user_guilds_serves_stale(s, t, choice, resp, answer) ==
    LET tk == get_token(s, t, choice, resp) IN
    IF tk.ret.kind # "value"
    THEN tk
    ELSE LET request ==
                 Request("/users/@me/guilds", tk.ret.value[1].access_token, answer)
         IN
         IF ~answer.ok
         THEN IF s.guilds = None
              THEN Effect(tk.session, Raised, tk.refresh, <<request>>, tk.writes)
              ELSE Effect(tk.session, Returned(guild_dict(s.guilds[1])),
                          tk.refresh, <<request>>, tk.writes)
         ELSE LET fetched == answer.data[1]
                  guilds_data == [i \in 1..Len(fetched) |-> stamp(fetched[i], t)]
              IN  Effect([tk.session EXCEPT !.guilds = Some(guilds_data)],
                         Returned(guild_dict(guilds_data)),
                         tk.refresh, <<request>>, Append(tk.writes, "guilds"))

\* Dashboard.fetch_user_guilds
fetch_user_guilds(s, t, choice, resp, answer) ==
    LET tk == get_token(s, t, choice, resp) IN
    IF tk.ret.kind # "value"
    THEN tk
    ELSE LET request ==
                 Request("/users/@me/guilds", tk.ret.value[1].access_token, answer)
         IN
         IF ~answer.ok
         THEN Effect(tk.session, Raised, tk.refresh, <<request>>, tk.writes)
         ELSE LET fetched == answer.data[1]
                  guilds_data == [i \in 1..Len(fetched) |-> stamp(fetched[i], t)]
              IN  Effect([tk.session EXCEPT !.guilds = Some(guilds_data)],
                         Returned(guild_dict(guilds_data)),
                         tk.refresh, <<request>>, Append(tk.writes, "guilds"))

all_expired(guilds, t) ==
    \A i \in 1..Len(guilds) : Guild_is_expired(guilds[i].value, t)

\* any(guild.is_expired() for guild in guilds.values())
any_expired(guilds, t) ==
    \E i \in 1..Len(guilds) : Guild_is_expired(guilds[i].value, t)

\* Dashboard.get_user_guilds
get_user_guilds(s, t, choice, resp, answer) ==
    IF falsy(s.guilds)
    THEN fetch_user_guilds(s, t, choice, resp, answer)
    ELSE LET guilds == guild_dict(s.guilds[1]) IN
         IF any_expired(guilds, t)
         THEN fetch_user_guilds(s, t, choice, resp, answer)
         ELSE Effect(s, Returned(guilds), <<>>, <<>>, <<>>)

----------------------------------------------------------------------------
(* The mutual-guild resolver.  The bot process answers the IPC request     *)
(* mutual_guild_ids with a list of guild ids, or with nothing.             *)

\* guild.to_dict()
to_dict(guild) == [id |-> guild.id, fetched_at |-> guild.fetched_at]

\* The effect of get_related_guilds: that of its get_user_guilds call, what
\* that call returned, the arguments, and the IPC requests sent; order
\* lists every remote call in turn.
RelatedEffect(eff, args, ret, ipc) ==
    [session |-> eff.session, ret |-> ret, refresh |-> eff.refresh,
     identity |-> eff.identity, writes |-> eff.writes, ipc |-> ipc,
     args |-> args, guilds |-> eff.ret,
     order |-> [i \in 1..Len(eff.refresh) |-> "refresh"]
               \o [i \in 1..Len(eff.identity) |-> "identity"]
               \o [i \in 1..Len(ipc) |-> "ipc"]]

RelatedGuilds(mutual, non_mutual, guild) ==
    [mutual_guilds |-> mutual, non_mutual_guilds |-> non_mutual, guild |-> guild]

\* x in mutual_guild_ids
contains(ids, x) == \E i \in 1..Len(ids) : ids[i] = x

\* await self.ipc.request("mutual_guild_ids", user_id=user_id) or []
or_empty(ipc_answer) == IF ipc_answer = None THEN <<>> ELSE ipc_answer[1]

RECURSIVE guilds_where_always_in(_, _, _)
guilds_where_always_in(guilds, ids, wanted) ==
    IF guilds = <<>> THEN <<>>
    ELSE LET rest == guilds_where_always_in(Tail(guilds), ids, wanted)
             guild == Head(guilds).value
         IN  IF contains(ids, guild.id)
             THEN <<to_dict(guild)>> \o rest
             ELSE rest

\* [guild.to_dict() for guild in guilds.values() if guild.id in mutual_guild_ids]
\* (wanted TRUE), and the same with not in (wanted FALSE).
RECURSIVE guilds_where(_, _, _)
guilds_where(guilds, ids, wanted) ==
    IF guilds = <<>> THEN <<>>
    ELSE LET rest == guilds_where(Tail(guilds), ids, wanted)
             guild == Head(guilds).value
         IN  IF contains(ids, guild.id) = wanted
             THEN <<to_dict(guild)>> \o rest
             ELSE rest

RECURSIVE utils_get_among_all(_, _, _)
utils_get_among_all(guilds, ids, guild_id) ==
    IF guilds = <<>> THEN None
    ELSE LET guild == Head(guilds).value IN
         IF guild.id = guild_id
         THEN Some(guild)
         ELSE utils_get_among_all(Tail(guilds), ids, guild_id)

\* discord.utils.get([...mutual guilds...], id=guild_id): the first match.
RECURSIVE utils_get(_, _, _)
utils_get(guilds, ids, guild_id) ==
    IF guilds = <<>> THEN None
    ELSE LET guild == Head(guilds).value IN
         IF contains(ids, guild.id) /\ guild.id = guild_id
         THEN Some(guild)
         ELSE utils_get(Tail(guilds), ids, guild_id)

\* if guild_id and (guild := discord.utils.get(...)): data["guild"] = ...
looked_up(guilds, ids, guild_id) ==
    IF guild_id = None \/ guild_id[1] = 0
    THEN None
    ELSE LET guild == utils_get(guilds, ids, guild_id[1]) IN
         IF guild = None THEN None ELSE Some(to_dict(guild[1]))

\* not guilds, for what get_user_guilds returned: None and {} are falsy.
no_guilds(ret) == ret.kind = "absent" \/ ret.value[1] = <<>>

IpcRequest(user_id, ipc_answer) ==
    [endpoint |-> "mutual_guild_ids", user_id |-> user_id, answer |-> ipc_answer]

get_related_guilds_ipc_first(s, t, choice, resp, answer, user_id, guild_id, ipc_answer) ==
    LET gug == get_user_guilds(s, t, choice, resp, answer)
        args == [user_id |-> user_id, guild_id |-> guild_id]
        request == IpcRequest(user_id, ipc_answer)
    IN
    IF gug.ret.kind = "HTTPException"
    THEN RelatedEffect(gug, args, Raised, <<request>>)
    ELSE IF no_guilds(gug.ret)
    THEN RelatedEffect(gug, args, Returned(RelatedGuilds(None, None, None)),
                       <<request>>)
    ELSE LET guilds == gug.ret.value[1]
             mutual_guild_ids == or_empty(ipc_answer)
         IN  RelatedEffect(gug, args,
                 Returned(RelatedGuilds(
                     Some(guilds_where(guilds, mutual_guild_ids, TRUE)),
                     Some(guilds_where(guilds, mutual_guild_ids, FALSE)),
                     looked_up(guilds, mutual_guild_ids, guild_id))),
                 <<request>>)

get_related_guilds_no_default(s, t, choice, resp, answer, user_id, guild_id, ipc_answer) ==
    LET gug == get_user_guilds(s, t, choice, resp, answer)
        args == [user_id |-> user_id, guild_id |-> guild_id]
    IN
    IF gug.ret.kind = "HTTPException"
    THEN RelatedEffect(gug, args, Raised, <<>>)
    ELSE IF no_guilds(gug.ret)
    THEN RelatedEffect(gug, args, Returned(RelatedGuilds(None, None, None)), <<>>)
    ELSE IF ipc_answer = None
    THEN RelatedEffect(gug, args, Raised, <<IpcRequest(user_id, ipc_answer)>>)
    ELSE LET guilds == gug.ret.value[1]
             mutual_guild_ids == ipc_answer[1]
         IN  RelatedEffect(gug, args,
                 Returned(RelatedGuilds(
                     Some(guilds_where(guilds, mutual_guild_ids, TRUE)),
                     Some(guilds_where(guilds, mutual_guild_ids, FALSE)),
                     looked_up(guilds, mutual_guild_ids, guild_id))),
                 <<IpcRequest(user_id, ipc_answer)>>)

\* Dashboard.get_related_guilds
get_related_guilds(s, t, choice, resp, answer, user_id, guild_id, ipc_answer) ==
    LET gug == get_user_guilds(s, t, choice, resp, answer)
        args == [user_id |-> user_id, guild_id |-> guild_id]
    IN
    IF gug.ret.kind = "HTTPException"
    THEN RelatedEffect(gug, args, Raised, <<>>)
    ELSE IF no_guilds(gug.ret)
    THEN RelatedEffect(gug, args, Returned(RelatedGuilds(None, None, None)), <<>>)
    ELSE LET guilds == gug.ret.value[1]
             mutual_guild_ids == or_empty(ipc_answer)
         IN  RelatedEffect(gug, args,
                 Returned(RelatedGuilds(
                     Some(guilds_where(guilds, mutual_guild_ids, TRUE)),
                     Some(guilds_where(guilds, mutual_guild_ids, FALSE)),
                     looked_up(guilds, mutual_guild_ids, guild_id))),
                 <<IpcRequest(user_id, ipc_answer)>>)

----------------------------------------------------------------------------
(* The state machine.                                                      *)

\* The session records a request can arrive with.  The session store is
\* outside this class and is written by other handlers too (the OAuth
\* callback stores the first token), so each field is present or not on
\* its own; the methods take whatever record they are handed.  Stored
\* records carry the time they were obtained: 0 or 1, the clock starts at 1.
\* Stored guild lists are taken in the order of their ids, each entry with
\* its own fetched_at.
StoredTokens == {TokenBody("", "A", "R1", ExpiresIn, o) : o \in 0..1}
StoredUsers == {stamp([id |-> u], f) : u \in UserIds, f \in 0..1}
StoredGuilds ==
    {[i \in 1..Len(l) |-> stamp([id |-> l[i]], f[i])] :
        l \in {m \in Lists(GuildIds, MaxGuilds) :
                  \A i, j \in 1..Len(m) : i < j => int[m[i]] < int[m[j]]},
        f \in [1..MaxGuilds -> 0..1]}

Sessions ==
    [token : {None} \cup {Some(d) : d \in StoredTokens},
     user : {None} \cup {Some(d) : d \in StoredUsers},
     guilds : {None} \cup {Some(l) : l \in StoredGuilds}]

EmptySession == [token |-> None, user |-> None, guilds |-> None]

\* What is kept of the call before the last one, where it is kept at all.
Untracked == [op |-> "untracked", ret |-> Absent, upstream |-> 0]
Summary(call) ==
    [op |-> call.op, ret |-> call.eff.ret,
     upstream |-> Len(call.eff.refresh) + Len(call.eff.identity)]

Call(op, s, t, expired, eff) ==
    [op |-> op, pre |-> s, at |-> t, expired |-> expired, eff |-> eff]

NoCall == Call("none", EmptySession, 0, FALSE,
               Effect(EmptySession, Absent, <<>>, <<>>, <<>>))

\* Whether get_token, called on s at t, finds the stored token expired.
finds_expired(s, t, choice) ==
    s.token # None /\ Token_is_expired(Token(s.token[1]), t, choice)

\* The inputs that can matter to a call on s at t: the expiry of a token
\* body without obtained_at, and the provider's answer when it is asked.
Choices(s) ==
    IF s.token # None /\ s.token[1].obtained_at = Missing THEN BOOLEAN ELSE {FALSE}

\* The remote side answers when it is asked.  Unasked stands for the token
\* endpoint in a call that sends it nothing; posts and sends tell, from the
\* call run against a refusing remote side, whether it is asked at all.
Unasked == [status |-> 0, body |-> TokenBody("", "", "", 0, Missing)]
posts(eff) == IF eff.refresh # <<>> THEN RefreshResponses ELSE {Unasked}
sends(eff, responses) == IF eff.identity # <<>> THEN responses ELSE {Failed}

\* One request at a time: nothing is in flight, and the credentials map
\* and the database are not looked at.
NoHandlers == <<>>
EmptyMap == {}
NoRow == None
OneAtATime ==
    /\ reqs = NoHandlers
    /\ token_writes = 0
    /\ spotify_user_credentials = EmptyMap
    /\ db = NoRow
others == <<reqs, token_writes, spotify_user_credentials, db>>

Start(S) ==
    /\ now = 1
    /\ session \in S
    /\ last = NoCall
    /\ prev = Summary(NoCall)
    /\ OneAtATime

\* Each layer is run on the sessions that differ in the fields it reads.
InitToken == Start({s \in Sessions : s.user = None /\ s.guilds = None})
InitUser == Start({s \in Sessions : s.guilds = None})
InitGuilds == Start({s \in Sessions : s.user = None})
InitNoToken == Start({s \in Sessions : s.token = None})

\* The resolver is run at a fixed time, 1 or 2, on the sessions that are
\* fresh or stale then; the history of calls is not kept.
InitRelated ==
    /\ now \in 1..2
    /\ session \in {s \in Sessions : s.user = None}
    /\ last = NoCall
    /\ prev = Untracked
    /\ OneAtATime

\* The layers together are run at a fixed time, on every session, fresh or
\* stale then; the history of calls is not kept.
InitCaches ==
    /\ now \in 1..MaxTime
    /\ session \in Sessions
    /\ last = NoCall
    /\ prev = Untracked
    /\ OneAtATime

\* For what each layer writes, the stored guild list has at most one entry.
InitFrame ==
    /\ now \in 1..MaxTime
    /\ session \in {s \in Sessions : s.guilds = None \/ Len(s.guilds[1]) <= 1}
    /\ last = NoCall
    /\ prev = Untracked
    /\ OneAtATime

Tick ==
    /\ now < MaxTime
    /\ now' = now + 1
    /\ UNCHANGED <<session, last, prev, others>>

Done(op, choice, eff) ==
    /\ session' = eff.session
    /\ prev' = IF prev = Untracked THEN Untracked ELSE Summary(last)
    /\ last' = Call(op, session, now, finds_expired(session, now, choice), eff)
    /\ UNCHANGED <<now, others>>

GetToken ==
    \E choice \in Choices(session) :
    \E resp \in posts(get_token(session, now, choice, Unasked)) :
        Done("get_token", choice, get_token(session, now, choice, resp))

GetUser ==
    \E choice \in Choices(session) :
    \E resp \in posts(get_user(session, now, choice, Unasked, Failed)) :
    \E answer \in sends(get_user(session, now, choice, resp, Failed), UserResponses) :
        Done("get_user", choice, get_user(session, now, choice, resp, answer))

GetUserGuilds ==
    \E choice \in Choices(session) :
    \E resp \in posts(get_user_guilds(session, now, choice, Unasked, Failed)) :
    \E answer \in sends(get_user_guilds(session, now, choice, resp, Failed),
                        GuildResponses) :
        Done("get_user_guilds", choice,
             get_user_guilds(session, now, choice, resp, answer))

\* The arguments and the bot's answers get_related_guilds is run with: the
\* id of the logged-in user, no guild_id or one from the route (\d+, which
\* 0 matches), and no answer or a list of guild ids.
UserIdArgs == {7}
GuildIdArgs == {None} \cup {Some(i) : i \in {0, 1, 2}}
IpcAnswers == {None} \cup {Some(l) : l \in {<<>>, <<1>>, <<2>>, <<2, 1>>, <<9, 1>>}}

asks(eff, answers) == IF eff.ipc # <<>> THEN answers ELSE {None}

RelatedCall(guild_ids, ipc_answers) ==
    \E choice \in Choices(session), user_id \in UserIdArgs, guild_id \in guild_ids :
    \E resp \in posts(get_user_guilds(session, now, choice, Unasked, Failed)) :
    \E answer \in sends(get_user_guilds(session, now, choice, resp, Failed),
                        GuildResponses) :
    \E ipc_answer \in asks(get_related_guilds(session, now, choice, resp, answer,
                                              user_id, guild_id, None),
                           ipc_answers) :
        Done("get_related_guilds", choice,
             get_related_guilds(session, now, choice, resp, answer,
                                user_id, guild_id, ipc_answer))

GetRelatedGuilds == RelatedCall(GuildIdArgs, IpcAnswers)
\* The same call where only what it writes is looked at: no guild_id, and
\* the bot silent or naming one guild.
GetRelatedGuildsPlain == RelatedCall({None}, {None, Some(<<1>>)})

\* Two requests of one session handled at once by the event loop: a handler
\* runs from one await to the next without interruption, and the other may
\* run while it awaits.
Handlers == {1, 2}
Idle == [pc |-> "idle", epoch |-> 0, ret |-> Absent, refresh |-> <<>>]
Awaiting(n) == [pc |-> "post", epoch |-> n, ret |-> Absent, refresh |-> <<>>]
Finished(ret, refresh, n) ==
    [pc |-> "done", epoch |-> n, ret |-> ret, refresh |-> refresh]

InitRefresh ==
    /\ now = 1
    /\ session \in {s \in Sessions : s.user = None /\ s.guilds = None}
    /\ last = NoCall
    /\ prev = Untracked
    /\ reqs = [r \in Handlers |-> Idle]
    /\ token_writes = 0
    /\ spotify_user_credentials = EmptyMap
    /\ db = NoRow

\* get_token up to its first await: it returns without one, or it has read
\* the stored token as expired and sent the POST.
EnterGetToken(r) ==
    /\ reqs[r].pc = "idle"
    /\ \E choice \in Choices(session) :
         LET eff == get_token(session, now, choice, Unasked) IN
         reqs' = [reqs EXCEPT ![r] =
                     IF eff.refresh = <<>>
                     THEN Finished(eff.ret, <<>>, token_writes)
                     ELSE Awaiting(token_writes)]
    /\ UNCHANGED <<session, now, last, prev, token_writes,
                   spotify_user_credentials, db>>

\* The POST is answered and get_token runs to its end, on the session as it
\* is by then.
AnswerGetToken(r) ==
    /\ reqs[r].pc = "post"
    /\ \E resp \in RefreshResponses :
         LET eff == refreshed(session, resp) IN
         /\ session' = eff.session
         /\ token_writes' = token_writes + Len(eff.writes)
         /\ reqs' = [reqs EXCEPT ![r] =
                        Finished(eff.ret, eff.refresh, reqs[r].epoch)]
    /\ UNCHANGED <<now, last, prev, spotify_user_credentials, db>>

NextRefresh ==
    \/ Tick
    \/ \E r \in Handlers : EnterGetToken(r)
    \/ \E r \in Handlers : AnswerGetToken(r)

\* Dashboard.spotify_user_credentials, a dict: at most one value per key.
map_get(map, key) ==
    IF \E e \in map : e.key = key
    THEN Some((CHOOSE e \in map : e.key = key).value)
    ELSE None
map_put(map, key, value) ==
    {e \in map : e.key # key} \cup {[key |-> key, value |-> value]}

\* The row fetchrow finds for the user: none, one whose
\* spotify_refresh_token is NULL, or one that holds a refresh token.
SpotifyRefreshTokens == {"S1"}
SpotifyAccessTokens == {"T1", "T2"}
Row(spotify_refresh_token) == Some([spotify_refresh_token |-> spotify_refresh_token])
Rows == {NoRow, Row(None)} \cup {Row(Some(t)) : t \in SpotifyRefreshTokens}

\* aiospotify.UserCredentials.from_refresh_token: the credentials the
\* service issues for a refresh token.
UserCredentials(refresh_token, access_token) ==
    [refresh_token |-> refresh_token, access_token |-> access_token]
TypeError == [kind |-> "TypeError", value |-> None]
SpotifyError == [kind |-> "SpotifyException", value |-> None]

IdleSpotify ==
    [pc |-> "idle", user |-> None, refresh_token |-> None, ret |-> Absent,
     wrote |-> FALSE]

InitSpotify ==
    /\ now = 1
    /\ session \in {s \in Sessions : s.guilds = None}
    /\ last = NoCall
    /\ prev = Untracked
    /\ reqs = [r \in Handlers |-> IdleSpotify]
    /\ token_writes = 0
    /\ spotify_user_credentials = EmptyMap
    /\ db \in Rows

\* record = await self.db.fetchrow(...); record["spotify_refresh_token"]
record_read(r) ==
    IF db = NoRow
    THEN [reqs[r] EXCEPT !.pc = "done", !.ret = TypeError]
    ELSE IF db[1].spotify_refresh_token = None
    THEN [reqs[r] EXCEPT !.pc = "done", !.ret = Absent]
    ELSE [reqs[r] EXCEPT !.pc = "exchange",
                         !.refresh_token = db[1].spotify_refresh_token]

\* get_spotify_credentials from get_user's return to the fetchrow await.
looked_up_credentials(r, eff) ==
    IF eff.ret.kind = "HTTPException"
    THEN [reqs[r] EXCEPT !.pc = "done", !.ret = Raised]
    ELSE IF eff.ret.kind = "absent"
    THEN [reqs[r] EXCEPT !.pc = "done", !.ret = Absent]
    ELSE LET user == eff.ret.value[1]
             credentials == map_get(spotify_user_credentials, user.id)
         IN  IF credentials # None
             THEN [reqs[r] EXCEPT !.pc = "done", !.user = Some(user.id),
                                  !.ret = Returned(credentials[1])]
             ELSE [reqs[r] EXCEPT !.pc = "fetchrow", !.user = Some(user.id)]

\* get_spotify_credentials: await self.get_user(session), then the lookup
\* in the map, up to the fetchrow await.
EnterSpotify(r) ==
    /\ reqs[r].pc = "idle"
    /\ \E choice \in Choices(session) :
       \E resp \in posts(get_user(session, now, choice, Unasked, Failed)) :
       \E answer \in sends(get_user(session, now, choice, resp, Failed),
                           UserResponses) :
         LET eff == get_user(session, now, choice, resp, answer) IN
         /\ session' = eff.session
         /\ token_writes' = token_writes + Len(eff.refresh)
         /\ reqs' = [reqs EXCEPT ![r] = looked_up_credentials(r, eff)]
    /\ UNCHANGED <<now, last, prev, spotify_user_credentials, db>>

\* fetchrow returns and the refresh token is read off the record.
Fetched(r) ==
    /\ reqs[r].pc = "fetchrow"
    /\ reqs' = [reqs EXCEPT ![r] = record_read(r)]
    /\ UNCHANGED <<session, now, last, prev, token_writes,
                   spotify_user_credentials, db>>

\* from_refresh_token returns or raises; what it returns goes into the map.
Exchanged(r) ==
    /\ reqs[r].pc = "exchange"
    /\ \/ \E access_token \in SpotifyAccessTokens :
            LET credentials ==
                    UserCredentials(reqs[r].refresh_token[1], access_token)
            IN  /\ spotify_user_credentials' =
                       map_put(spotify_user_credentials, reqs[r].user[1],
                               credentials)
                /\ reqs' = [reqs EXCEPT ![r].pc = "done",
                                        ![r].ret = Returned(credentials),
                                        ![r].wrote = TRUE]
       \/ /\ reqs' = [reqs EXCEPT ![r].pc = "done", ![r].ret = SpotifyError]
          /\ UNCHANGED spotify_user_credentials
    /\ UNCHANGED <<session, now, last, prev, token_writes, db>>

NextSpotify ==
    \/ \E r \in Handlers : EnterSpotify(r)
    \/ \E r \in Handlers : Fetched(r)
    \/ \E r \in Handlers : Exchanged(r)

NextToken == Tick \/ GetToken
NextUser == Tick \/ GetToken \/ GetUser
NextGuilds == Tick \/ GetUserGuilds
NextNoToken == Tick \/ GetToken \/ GetUser \/ GetUserGuilds
NextRelated == GetRelatedGuilds
NextCaches == GetToken \/ GetUser \/ GetUserGuilds
NextFrame == GetToken \/ GetUser \/ GetUserGuilds \/ GetRelatedGuildsPlain

\* The token manager alone.
SpecToken == InitToken /\ [][NextToken]_vars
\* The profile cache over the token manager.
SpecUser == InitUser /\ [][NextUser]_vars
\* The guild list cache over the token manager.
SpecGuilds == InitGuilds /\ [][NextGuilds]_vars
\* Every layer, on the sessions that hold no token.
SpecNoToken == InitNoToken /\ [][NextNoToken]_vars
\* The mutual-guild resolver over the guild list cache.
SpecRelated == InitRelated /\ [][NextRelated]_vars
\* The token manager and the two caches together.
SpecCaches == InitCaches /\ [][NextCaches]_vars
\* The four layers together, for what each writes.
SpecFrame == InitFrame /\ [][NextFrame]_vars
\* Two get_token calls of one session interleaved at the awaited POST.
SpecRefresh == InitRefresh /\ [][NextRefresh]_vars
\* Two get_spotify_credentials calls of one user interleaved at their awaits.
SpecSpotify == InitSpotify /\ [][NextSpotify]_vars

----------------------------------------------------------------------------
(* What the last call found and did.                                       *)

Refreshes == Len(last.eff.refresh)
Requests == Len(last.eff.identity)
Upstream == Refreshes + Requests

\* get_token ran into an expired stored token, and how the refresh ended.
ExpiredAccess == last.op = "get_token" /\ last.expired
RefreshGranted == Refreshes >= 1 /\ Granted(last.eff.refresh[1])
RefreshRefused == Refreshes >= 1 /\ ~Granted(last.eff.refresh[1])

\* The stored token was present and not expired when the last call began.
TokenValid == last.pre.token # None /\ ~last.expired

\* The cached user / guild list was usable when the last call began.
UserFresh ==
    last.pre.user # None /\ ~User_is_expired(User(last.pre.user[1]), last.at)
\* The entries of the cached guild list that were expired at that moment.
StaleEntries ==
    {i \in 1..Len(last.pre.guilds[1]) :
        last.at >= last.pre.guilds[1][i].fetched_at + GuildTTL}
GuildsFresh == last.pre.guilds # None /\ StaleEntries = {}
SomeGuildExpired == last.pre.guilds # None /\ StaleEntries # {}

----------------------------------------------------------------------------
(* The token manager.                                                      *)

\* C1: get_token on an expired stored token sends exactly one refresh to
\* the provider; when the provider grants it, the body it sent is written
\* to the token field in one write and the token returned is the view of
\* that body, not of the old one.
C1_OneRefreshReturnsNew ==
    ExpiredAccess =>
        /\ Refreshes = 1
        /\ RefreshGranted =>
              /\ last.eff.writes = <<"token">>
              /\ session.token = Some(last.eff.refresh[1].body)
              /\ last.eff.ret = Returned(Token(last.eff.refresh[1].body))

C1_Witness ==
    /\ ExpiredAccess
    /\ RefreshGranted
    /\ last.eff.ret.kind = "value"
    /\ last.eff.ret.value[1].access_token # last.pre.token[1].access_token

\* C2: when the refresh sent by get_token is refused (a status other than
\* 200, or an error field in the body), get_token raises HTTPException,
\* returns no token and leaves the session as it was.
C2_RefusedRefreshRaises ==
    (ExpiredAccess /\ RefreshRefused) =>
        /\ last.eff.ret = Raised
        /\ last.eff.writes = <<>>
        /\ session = last.pre

C2_Witness ==
    /\ ExpiredAccess
    /\ RefreshRefused
    /\ last.eff.refresh[1].status = 200
    /\ last.eff.ret = Raised
    /\ session.token = last.pre.token

\* C3: get_token on a stored token that is not expired returns the view of
\* that token, sends nothing to the provider and leaves the session as it
\* was; after a get_token that was such a hit, it returns an equal value.
C3_TokenCacheHit ==
    (last.op = "get_token" /\ TokenValid) =>
        /\ last.eff.ret = Returned(Token(last.pre.token[1]))
        /\ Upstream = 0
        /\ last.eff.writes = <<>>
        /\ session = last.pre
        /\ (prev.op = "get_token" /\ prev.ret.kind = "value" /\ prev.upstream = 0)
              => last.eff.ret = prev.ret

C3_Witness ==
    /\ last.op = "get_token"
    /\ TokenValid
    /\ prev.op = "get_token"
    /\ prev.ret.kind = "value"
    /\ prev.upstream = 0
    /\ last.eff.ret = prev.ret

\* C4: get_token on a session without a token field returns None, does not
\* raise, sends nothing to the provider and writes nothing.
C4_NoTokenAbsent ==
    (last.op = "get_token" /\ last.pre.token = None) =>
        /\ last.eff.ret = Absent
        /\ Upstream = 0
        /\ last.eff.writes = <<>>
        /\ session = last.pre

C4_Witness ==
    /\ last.op = "get_token"
    /\ last.pre.token = None
    /\ last.eff.ret = Absent

\* C10, as claimed: after a granted refresh the stored token carries an
\* obtained_at equal to the time of the refresh, and a get_token at that
\* same time finds it not expired.
C10_RefreshedTokenStamped ==
    (ExpiredAccess /\ RefreshGranted) =>
        /\ session.token[1].obtained_at = last.at
        /\ \A choice \in Choices(session) : ~finds_expired(session, last.at, choice)

----------------------------------------------------------------------------
(* The profile cache.                                                      *)

C6_UserCacheHit ==
    (last.op = "get_user" /\ UserFresh) =>
        /\ last.eff.ret = Returned(User(last.pre.user[1]))
        /\ Upstream = 0
        /\ last.eff.writes = <<>>
        /\ session = last.pre
        /\ (prev.op = "get_user" /\ prev.ret.kind = "value")
              => last.eff.ret = prev.ret

C6_Witness ==
    /\ last.op = "get_user"
    /\ UserFresh
    /\ last.pre.token # None
    /\ last.expired
    /\ prev.op = "get_user"
    /\ prev.ret.kind = "value"
    /\ prev.upstream > 0
    /\ last.eff.ret = prev.ret

\* C9: get_user with a valid token and a user field that is missing or
\* expired sends exactly one identity request, with the stored access
\* token; when it is answered, the answer stamped with the current time
\* is stored in the user field and returned, and is not expired then.
C9_UserMissFetchesOnce ==
    (last.op = "get_user" /\ TokenValid /\ ~UserFresh) =>
        /\ Refreshes = 0
        /\ Requests = 1
        /\ last.eff.identity[1].route = "/users/@me"
        /\ last.eff.identity[1].token = last.pre.token[1].access_token
        /\ last.eff.identity[1].answer.ok =>
              LET data == [id |-> last.eff.identity[1].answer.data[1].id,
                           fetched_at |-> last.at]
              IN  /\ session.user = Some(data)
                  /\ last.eff.ret = Returned(User(data))
                  /\ ~User_is_expired(User(session.user[1]), last.at)
                  /\ session.token = last.pre.token

C9_Witness ==
    /\ last.op = "get_user"
    /\ TokenValid
    /\ last.pre.user # None
    /\ ~UserFresh
    /\ Requests = 1
    /\ last.eff.ret.kind = "value"
    /\ session.user[1].fetched_at = last.at

----------------------------------------------------------------------------
(* The guild list cache.                                                   *)

\* C7, as claimed: after a get_user_guilds that returned a mapping, a
\* second get_user_guilds with no stored entry expired sends nothing
\* upstream and returns an equal mapping, the empty guild list included.
C7_GuildsSecondCallHits ==
    (/\ last.op = "get_user_guilds"
     /\ prev.op = "get_user_guilds"
     /\ prev.ret.kind = "value"
     /\ GuildsFresh) =>
        /\ Upstream = 0
        /\ last.eff.ret = prev.ret

\* C8: get_user_guilds with a valid token and a cached list with at least
\* one expired entry sends exactly one request, for the whole guild list;
\* when it is answered, the guilds field is the answer, every entry
\* stamped with the current time, and the mapping of that list is returned.
C8_ExpiredEntryRefetchesAll ==
    (last.op = "get_user_guilds" /\ TokenValid /\ SomeGuildExpired) =>
        /\ Refreshes = 0
        /\ Requests = 1
        /\ last.eff.identity[1].route = "/users/@me/guilds"
        /\ last.eff.identity[1].answer.ok =>
              LET fetched == last.eff.identity[1].answer.data[1]
                  data == [i \in 1..Len(fetched) |->
                              [id |-> fetched[i].id, fetched_at |-> last.at]]
              IN  /\ session.guilds = Some(data)
                  /\ last.eff.ret = Returned(guild_dict(data))
                  /\ last.eff.writes = <<"guilds">>

C8_Witness ==
    /\ last.op = "get_user_guilds"
    /\ TokenValid
    /\ SomeGuildExpired
    /\ Cardinality(StaleEntries) = 1
    /\ Requests = 1
    /\ last.eff.ret.kind = "value"
    /\ Len(session.guilds[1]) = 1
    /\ Len(last.pre.guilds[1]) = 2
    /\ session.guilds[1][1].fetched_at = last.at

----------------------------------------------------------------------------
(* The mutual-guild resolver.                                              *)

Related == last.op = "get_related_guilds"
AllAbsent == Returned([mutual_guilds |-> None, non_mutual_guilds |-> None,
                       guild |-> None])
IpcCalls == Len(last.eff.ipc)

\* The guild mapping the guild list cache handed to the resolver, as the
\* list of its guilds (none when it returned None), and the ids the bot
\* answered (none when it was not asked or did not answer).
GivenGuilds ==
    IF last.eff.guilds.kind # "value" THEN <<>>
    ELSE [i \in 1..Len(session.guilds[1]) |->
             [id |-> int[session.guilds[1][i].id],
              fetched_at |-> session.guilds[1][i].fetched_at]]
MutualIds ==
    IF IpcCalls = 0 \/ last.eff.ipc[1].answer = None THEN {}
    ELSE {last.eff.ipc[1].answer[1][i] : i \in 1..Len(last.eff.ipc[1].answer[1])}

\* The lists of the returned triple, an absent list holding nothing.
Listed(field) == IF field = None THEN <<>> ELSE field[1]
Mutual == Listed(last.eff.ret.value[1].mutual_guilds)
NonMutual == Listed(last.eff.ret.value[1].non_mutual_guilds)
Times_in(list, x) == Cardinality({i \in 1..Len(list) : list[i] = x})

\* The cached guild list could be served when the call began.
GuildsUsable ==
    /\ last.pre.guilds # None
    /\ last.pre.guilds[1] # <<>>
    /\ StaleEntries = {}

C12_OneIpcAfterGuilds ==
    (Related /\ last.pre.token # None /\ last.eff.ret.kind = "value") =>
        /\ IpcCalls = 1
        /\ last.eff.ipc[1].endpoint = "mutual_guild_ids"
        /\ last.eff.order[Len(last.eff.order)] = "ipc"
        /\ last.eff.ret.value[1].mutual_guilds # None
        /\ last.eff.ret.value[1].non_mutual_guilds # None

\* C13: the two lists get_related_guilds returns hold every guild of the
\* mapping exactly once between them: in mutual_guilds when its id is among
\* the ids the bot answered, in non_mutual_guilds otherwise, and nothing else.
C13_Partition ==
    (Related /\ last.eff.ret.kind = "value") =>
        /\ \A i \in 1..Len(GivenGuilds) :
              LET g == GivenGuilds[i] IN
              /\ Times_in(Mutual, g) = IF g.id \in MutualIds THEN 1 ELSE 0
              /\ Times_in(NonMutual, g) = IF g.id \in MutualIds THEN 0 ELSE 1
        /\ Len(Mutual) + Len(NonMutual) = Len(GivenGuilds)

C13_Witness ==
    /\ Related
    /\ last.eff.ret.kind = "value"
    /\ Len(Mutual) = 1
    /\ Len(NonMutual) = 1
    /\ Mutual[1].id = 1
    /\ NonMutual[1].id = 2
    /\ 9 \in MutualIds

\* C14: the guild field is present exactly when a guild_id was given that
\* is a key of the mapping and among the ids the bot answered, and it is
\* then the guild with that id.
C14_GuildOnlyIfMutual ==
    (Related /\ last.eff.ret.kind = "value") =>
        LET guild_id == last.eff.args.guild_id
            found == {i \in 1..Len(GivenGuilds) :
                         /\ guild_id # None
                         /\ GivenGuilds[i].id = guild_id[1]
                         /\ guild_id[1] \in MutualIds}
            guild == last.eff.ret.value[1].guild
        IN  /\ guild # None <=> found # {}
            /\ guild # None => \E i \in found : guild[1] = GivenGuilds[i]

C14_Witness ==
    /\ Related
    /\ last.eff.ret.kind = "value"
    /\ last.eff.args.guild_id = Some(1)
    /\ \E i \in 1..Len(GivenGuilds) : GivenGuilds[i].id = 1
    /\ 1 \notin MutualIds
    /\ 2 \in MutualIds
    /\ last.eff.ret.value[1].guild = None

\* C15: when the bot gives no answer to mutual_guild_ids, get_related_guilds
\* does not raise: mutual_guilds is empty, non_mutual_guilds holds every
\* guild of the mapping in its order, and guild is absent.
C15_NoAnswerAllNonMutual ==
    (Related /\ IpcCalls = 1 /\ last.eff.ipc[1].answer = None) =>
        /\ last.eff.ret.kind = "value"
        /\ last.eff.ret.value[1].mutual_guilds = Some(<<>>)
        /\ last.eff.ret.value[1].non_mutual_guilds = Some(GivenGuilds)
        /\ last.eff.ret.value[1].guild = None

C15_Witness ==
    /\ Related
    /\ IpcCalls = 1
    /\ last.eff.ipc[1].answer = None
    /\ last.eff.args.guild_id = Some(2)
    /\ Len(NonMutual) = 2
    /\ NonMutual[1].id = 2

----------------------------------------------------------------------------
(* The layers together.                                                    *)

FetchOps == {"get_user", "get_user_guilds"}
RequestFailed == Requests >= 1 /\ ~last.eff.identity[1].answer.ok
RequestAnswered == Requests = 1 /\ last.eff.identity[1].answer.ok
Kept(field) == session[field] = last.pre[field]

\* C17: every identity request of get_user and get_user_guilds carries the
\* access token the session holds once get_token has returned; when the
\* stored token was expired that is the token the refresh of this call was
\* granted.  When the refresh is refused no identity request is sent and
\* the user and guilds fields stay as they were.
C17_RequestsCarryCurrentToken ==
    (last.op \in FetchOps) =>
        /\ \A i \in 1..Requests :
              /\ session.token # None
              /\ last.eff.identity[i].token = session.token[1].access_token
              /\ last.expired =>
                    /\ RefreshGranted
                    /\ last.eff.identity[i].token =
                           last.eff.refresh[1].body.access_token
        /\ RefreshRefused =>
              /\ Requests = 0
              /\ Kept("user")
              /\ Kept("guilds")

C17_Witness ==
    /\ last.op = "get_user_guilds"
    /\ last.expired
    /\ Requests = 1
    /\ last.eff.identity[1].token = "B"
    /\ last.pre.token[1].access_token = "A"
    /\ session.token[1].access_token = "B"

\* C18: when the identity request of get_user or get_user_guilds fails the
\* call raises and the user and guilds fields keep their content; and a
\* value that get_token, get_user or get_user_guilds returns was found
\* unexpired by that call or was obtained during it.
C18_FailurePropagatesNoStale ==
    /\ (last.op \in FetchOps /\ RequestFailed) =>
          /\ last.eff.ret.kind = "HTTPException"
          /\ Kept("user")
          /\ Kept("guilds")
    /\ (last.op = "get_token" /\ last.eff.ret.kind = "value") =>
          \/ ~last.expired /\ Refreshes = 0
          \/ /\ RefreshGranted
             /\ last.eff.ret.value[1].access_token =
                    last.eff.refresh[1].body.access_token
    /\ (last.op = "get_user" /\ last.eff.ret.kind = "value") =>
          LET user == last.eff.ret.value[1] IN
          \/ Requests = 0 /\ last.at < user.fetched_at + UserTTL
          \/ RequestAnswered /\ user.fetched_at = last.at
    /\ (last.op = "get_user_guilds" /\ last.eff.ret.kind = "value") =>
          LET guilds == last.eff.ret.value[1] IN
          \/ /\ Requests = 0
             /\ \A i \in 1..Len(guilds) :
                   last.at < guilds[i].value.fetched_at + GuildTTL
          \/ /\ RequestAnswered
             /\ \A i \in 1..Len(guilds) : guilds[i].value.fetched_at = last.at

C18_Witness ==
    /\ last.op = "get_user_guilds"
    /\ last.pre.guilds # None
    /\ Cardinality(StaleEntries) = 1
    /\ Len(last.pre.guilds[1]) = 2
    /\ RequestFailed
    /\ last.eff.ret.kind = "HTTPException"
    /\ Kept("guilds")

\* C19: get_token leaves the user and guilds fields as they were, get_user
\* the guilds field, get_user_guilds the user field; get_related_guilds
\* changes only what the guild list cache writes: the token on a granted
\* refresh, the guilds on an answered fetch.  No call removes a field.
C19_LayersWriteOwnField ==
    /\ last.op = "get_token" => Kept("user") /\ Kept("guilds")
    /\ last.op = "get_user" => Kept("guilds")
    /\ last.op = "get_user_guilds" => Kept("user")
    /\ last.op = "get_related_guilds" =>
          /\ Kept("user")
          /\ Kept("token") \/ RefreshGranted
          /\ Kept("guilds") \/ RequestAnswered
    /\ last.op # "none" =>
          \A field \in {"token", "user", "guilds"} :
              last.pre[field] # None => session[field] # None

C19_Witness ==
    /\ last.op = "get_related_guilds"
    /\ last.pre.user # None
    /\ last.pre.guilds # None
    /\ ~Kept("token")
    /\ ~Kept("guilds")
    /\ Kept("user")

----------------------------------------------------------------------------
(* Requests handled at once.                                               *)

\* Handler r has sent a refresh POST; it was turned down.
Posted(r) == reqs[r].pc = "post" \/ reqs[r].refresh # <<>>
TurnedDown(r) == reqs[r].pc = "done" /\ reqs[r].ret.kind = "HTTPException"

\* C16, as claimed: two requests of one session never both send a refresh
\* POST for the same stored token (the token as it was between two writes
\* of the token field), unless one was sent after the other was refused.
C16_AtMostOneRefresh ==
    \A r1, r2 \in DOMAIN reqs :
        (/\ r1 # r2
         /\ Posted(r1)
         /\ Posted(r2)
         /\ reqs[r1].epoch = reqs[r2].epoch)
        => (TurnedDown(r1) \/ TurnedDown(r2))

\* The refresh token the database holds for the user, if any, and the
\* entries the map holds for a user id.
StoredRefreshToken == IF db = None THEN None ELSE db[1].spotify_refresh_token
Entries(user_id) == {e \in spotify_user_credentials : e.key = user_id}
Through(r) == reqs[r].pc = "done" /\ "wrote" \in DOMAIN reqs[r]
Failure(r) == reqs[r].ret.kind \in {"HTTPException", "SpotifyException"}

\* C20, as claimed: of two get_spotify_credentials calls handled at once,
\* each call that found the user and whose remote calls succeeded returns
\* credentials built from the stored refresh token, and the map then holds
\* exactly one entry for the user, built from that token; a call that found
\* no logged-in user or no stored refresh token returns None and has not
\* written the map.
C20_SpotifyRace ==
    \A r \in DOMAIN reqs :
        Through(r) =>
            /\ (/\ reqs[r].user # None
                /\ StoredRefreshToken # None
                /\ ~Failure(r))
               => /\ reqs[r].ret.kind = "value"
                  /\ reqs[r].ret.value[1].refresh_token = StoredRefreshToken[1]
                  /\ Cardinality(Entries(reqs[r].user[1])) = 1
                  /\ \A e \in Entries(reqs[r].user[1]) :
                        e.value.refresh_token = StoredRefreshToken[1]
            /\ (reqs[r].user = None /\ ~Failure(r))
               => reqs[r].ret = Absent /\ ~reqs[r].wrote
            /\ (reqs[r].user # None /\ StoredRefreshToken = None)
               => reqs[r].ret = Absent /\ ~reqs[r].wrote

====
